---------------------------- MODULE Spec2Model ----------------------------
(***************************************************************************)
(* A model of quantitative-pricing-engine.py: the Position hierarchy       *)
(* (Stock, Derivative, Option), Option.theoretical_value_bs, Portfolio,    *)
(* ClientAccount and the maximum-strike report of main().                  *)
(*                                                                         *)
(* Numbers.  The fields of a position (quantity, market_price, multiplier, *)
(* strike_price) and cash_balance are whole-valued floats, modelled as     *)
(* integers: sums, differences and products of small whole floats are      *)
(* exact.  The real-valued arguments and the result of theoretical_value_bs*)
(* are fixed-point numbers counted in units of 1/FP: 250 stands for 0.25.  *)
(* math.log, math.sqrt, math.exp and math.erf are computed in that         *)
(* fixed-point arithmetic, so their values carry an error of a few units.  *)
(*                                                                         *)
(* Objects.  A Portfolio or a ClientAccount is a Python object reached by  *)
(* reference: portfolios are named by the identifiers of PortfolioIds and  *)
(* an account's portfolio attribute holds such an identifier or None.      *)
(* Positions are never mutated after construction, so a position is        *)
(* modelled by its value (a record).                                       *)
(***************************************************************************)
EXTENDS Integers, Sequences, FiniteSets

VARIABLES positions,      \* Portfolio.positions of each Portfolio object
          bank_database,  \* the ClientAccount objects, in collection order
          lastCall,       \* the last operation called, with its arguments
          returned        \* what that operation returned

vars == <<positions, bank_database, lastCall, returned>>

None == "None"

(***************************************************************************)
(* Bounds of the model.                                                    *)
(***************************************************************************)
\* The number of add_position calls of a run, over both portfolios.
MaxPositions == 3
\* The largest market_price and strike_price of a priced Option.
MaxPrice == 3

(***************************************************************************)
(* Fixed-point arithmetic.                                                 *)
(***************************************************************************)
FP == 1000

Max(a, b) == IF a >= b THEN a ELSE b

Abs(a) == IF a < 0 THEN -a ELSE a

\* n / d rounded to the nearest integer, d > 0.
RoundDiv(n, d) == (2 * n + d) \div (2 * d)

\* The product and the quotient of two fixed-point numbers.
FMul(a, b) == RoundDiv(a * b, FP)

FDiv(a, b) == IF b > 0 THEN RoundDiv(a * FP, b) ELSE RoundDiv((-a) * FP, -b)

\* The largest k in lo..hi-1 with k*k <= n, given lo*lo <= n < hi*hi.
RECURSIVE SqrtSearch(_, _, _)
SqrtSearch(n, lo, hi) ==
    IF hi - lo <= 1 THEN lo
    ELSE LET mid == (lo + hi) \div 2
         IN  IF mid * mid <= n THEN SqrtSearch(n, mid, hi)
                               ELSE SqrtSearch(n, lo, mid)

\* math.sqrt(x), x >= 0.
FSqrt(x) == SqrtSearch(x * FP, 0, x + FP + 1)

\* x > 0 as <<m, k>> with x = m * 2^k and 1 <= m < 2.
RECURSIVE LogReduce(_, _)
LogReduce(x, k) ==
    IF x >= 2 * FP THEN LogReduce(RoundDiv(x, 2), k + 1)
    ELSE IF x < FP THEN LogReduce(2 * x, k - 1)
    ELSE <<x, k>>

\* math.log(x), x > 0: ln m = 2 atanh((m-1)/(m+1)), ln 2 = 0.693.
FLog(x) ==
    LET mk == LogReduce(x, 0)
        y  == FDiv(mk[1] - FP, mk[1] + FP)
        y2 == FMul(y, y)
        y3 == FMul(y, y2)
        y5 == FMul(y3, y2)
        y7 == FMul(y5, y2)
    IN  2 * (y + RoundDiv(y3, 3) + RoundDiv(y5, 5) + RoundDiv(y7, 7))
          + mk[2] * 693

\* math.exp(x): halved until |x| <= 1/2, then its Taylor polynomial.
RECURSIVE FExp(_)
FExp(x) ==
    IF x < -20 * FP THEN 0
    ELSE IF Abs(x) > FP \div 2
         THEN LET h == FExp(RoundDiv(x, 2)) IN FMul(h, h)
    ELSE LET x2 == FMul(x, x)
             x3 == FMul(x2, x)
             x4 == FMul(x3, x)
             x5 == FMul(x4, x)
         IN  FP + x + RoundDiv(x2, 2) + RoundDiv(x3, 6) + RoundDiv(x4, 24)
                + RoundDiv(x5, 120)

\* math.erf(x) for x >= 0 (Abramowitz and Stegun 7.1.26); 1 from x = 6 on.
ErfPos(x) ==
    IF x >= 6 * FP THEN FP
    ELSE LET t  == FDiv(FP, FP + FMul(328, x))
             t2 == FMul(t, t)
             t3 == FMul(t2, t)
             t4 == FMul(t3, t)
             t5 == FMul(t4, t)
             poly == FMul(255, t) - FMul(284, t2) + FMul(1421, t3)
                       - FMul(1453, t4) + FMul(1061, t5)
         IN  FP - FMul(poly, FExp(-FMul(x, x)))

\* math.erf(x): odd.
FErf(x) == IF x >= 0 THEN ErfPos(x) ELSE -ErfPos(-x)

\* N(x) of theoretical_value_bs: (1.0 + math.erf(x / math.sqrt(2.0))) / 2.0
N(x) == RoundDiv(FP + FErf(FDiv(x, FSqrt(2 * FP))), 2)

(***************************************************************************)
(* The Position hierarchy.                                                 *)
(***************************************************************************)
Stock(ticker, quantity, market_price, pays_dividends) ==
    [class |-> "Stock", ticker |-> ticker, quantity |-> quantity,
     market_price |-> market_price, pays_dividends |-> pays_dividends]

Derivative(ticker, quantity, market_price, expiration_date, multiplier) ==
    [class |-> "Derivative", ticker |-> ticker, quantity |-> quantity,
     market_price |-> market_price, expiration_date |-> expiration_date,
     multiplier |-> multiplier]

Option(ticker, quantity, market_price, expiration_date, multiplier, strike_price, option_type) ==
    [class |-> "Option", ticker |-> ticker, quantity |-> quantity,
     market_price |-> market_price, expiration_date |-> expiration_date,
     multiplier |-> multiplier, strike_price |-> strike_price,
     option_type |-> option_type]

\* The classes an object of class c is an instance of.
Bases(c) ==
    CASE c = "Stock"      -> {"Stock", "Position"}
      [] c = "Derivative" -> {"Derivative", "Position"}
      [] c = "Option"     -> {"Option", "Derivative", "Position"}

isinstance(pos, c) == c \in Bases(pos.class)

\* An Option valued at its strike instead of its market price.
calculate_current_value_OptionAtStrike(self) ==
    IF self.class = "Stock" THEN self.quantity * self.market_price
    ELSE IF self.class = "Option" THEN self.quantity * self.strike_price * self.multiplier
    ELSE self.quantity * self.market_price * self.multiplier

\* Stock.calculate_current_value and Derivative.calculate_current_value;
\* Option overrides nothing and values itself as a Derivative.
calculate_current_value(self) ==
    IF self.class = "Stock" THEN self.quantity * self.market_price
    ELSE self.quantity * self.market_price * self.multiplier

(***************************************************************************)
(* Option.theoretical_value_bs.  Its outcome is a returned value (in units *)
(* of 1/FP) or the exception the evaluation raises.                        *)
(***************************************************************************)
Value(v) == [kind |-> "value", v |-> v]

Raise(e) == [kind |-> e]

\* The guard clause's value, with the multiplier applied as on the main path.
IntrinsicValue_Scaled(self) ==
    (IF self.option_type = "Call"
        THEN Max(0, self.market_price - self.strike_price)
        ELSE Max(0, self.strike_price - self.market_price)) * self.multiplier

\* Line 100: max(0, S - K) if self.option_type == "Call" else max(0, K - S)
IntrinsicValue(self) ==
    IF self.option_type = "Call"
       THEN Max(0, self.market_price - self.strike_price)
       ELSE Max(0, self.strike_price - self.market_price)

\* Lines 110-117, given d1 and d2.
BlackScholesPrice(self, r, T, d1, d2) ==
    LET S == self.market_price
        K == self.strike_price
        discount == FExp(-FMul(r, T))
        theoretical_price ==
            IF self.option_type = "Call"
               THEN S * N(d1) - K * FMul(discount, N(d2))
            ELSE IF self.option_type = "Put"
               THEN K * FMul(discount, N(-d2)) - S * N(-d1)
            ELSE 0
    IN  theoretical_price * self.multiplier

theoretical_value_bs(self, risk_free_rate, volatility, time_to_maturity) ==
    LET S == self.market_price
        K == self.strike_price
        r == risk_free_rate
        sigma == volatility
        T == time_to_maturity
    IN  IF T <= 0 THEN Value(IntrinsicValue(self) * FP)
        \* d1: S / K, math.log, then the division by sigma * math.sqrt(T)
        ELSE IF K = 0 THEN Raise("ZeroDivisionError")
        ELSE IF FDiv(S * FP, K * FP) <= 0 THEN Raise("ValueError")
        ELSE LET sqrtT == FSqrt(T)
                 den   == FMul(sigma, sqrtT)
                 num   == FLog(FDiv(S * FP, K * FP))
                            + FMul(r + RoundDiv(FMul(sigma, sigma), 2), T)
             IN  IF den = 0 THEN Raise("ZeroDivisionError")
                 ELSE LET d1 == FDiv(num, den)
                          d2 == d1 - den
                      IN  Value(BlackScholesPrice(self, r, T, d1, d2))

(***************************************************************************)
(* Portfolio.                                                              *)
(***************************************************************************)
RECURSIVE sum(_)
sum(s) == IF s = <<>> THEN 0 ELSE sum(SubSeq(s, 1, Len(s) - 1)) + s[Len(s)]

total_valuation(self) ==
    sum([i \in 1..Len(self) |-> calculate_current_value(self[i])])

average_market_price(self) ==
    IF self = <<>> THEN 0
    ELSE LET total_price == sum([i \in 1..Len(self) |-> self[i].market_price])
         IN  RoundDiv(total_price * FP, Len(self))

\* The loop of has_straddle_strategy from position i on.
RECURSIVE StraddleLoop(_, _, _, _)
StraddleLoop(self, i, has_call, has_put) ==
    IF i > Len(self) THEN FALSE
    ELSE LET p  == self[i]
             hc == has_call \/ (isinstance(p, "Option") /\ p.option_type = "Call")
             hp == has_put \/ (isinstance(p, "Option") /\ p.option_type = "Put")
         IN  IF hc /\ hp THEN TRUE ELSE StraddleLoop(self, i + 1, hc, hp)

\* The loop with the early return taken as soon as either kind is found.
RECURSIVE StraddleLoop_Either(_, _, _, _)
StraddleLoop_Either(self, i, has_call, has_put) ==
    IF i > Len(self) THEN FALSE
    ELSE LET p  == self[i]
             hc == has_call \/ (isinstance(p, "Option") /\ p.option_type = "Call")
             hp == has_put \/ (isinstance(p, "Option") /\ p.option_type = "Put")
         IN  IF hc \/ hp THEN TRUE ELSE StraddleLoop_Either(self, i + 1, hc, hp)

has_straddle_strategy_Either(self) == StraddleLoop_Either(self, 1, FALSE, FALSE)

has_straddle_strategy(self) == StraddleLoop(self, 1, FALSE, FALSE)

(***************************************************************************)
(* ClientAccount.                                                          *)
(***************************************************************************)
ClientAccount(iban, cash_balance) ==
    [iban |-> iban, cash_balance |-> cash_balance, portfolio |-> None]

\* bool(x) of a Portfolio reference: Portfolio defines neither __bool__ nor
\* __len__, so every Portfolio object is true and only None is false.
Truthy(ref) == ref # None

calculate_net_worth_CashOnly(self) == self.cash_balance

calculate_net_worth(self) ==
    IF Truthy(self.portfolio)
       THEN self.cash_balance + total_valuation(positions[self.portfolio])
       ELSE self.cash_balance

(***************************************************************************)
(* main(): report 3, DEEP OTM CALLS (HIGHEST STRIKE).                      *)
(***************************************************************************)
\* The Calls of one positions list, in insertion order (lines 251-253).
RECURSIVE CallsOf(_)
CallsOf(ps) ==
    IF ps = <<>> THEN <<>>
    ELSE LET pos  == ps[Len(ps)]
             rest == CallsOf(SubSeq(ps, 1, Len(ps) - 1))
         IN  IF isinstance(pos, "Option") /\ pos.option_type = "Call"
                THEN Append(rest, pos) ELSE rest

\* all_calls after the loop over the first n accounts (lines 248-253).
RECURSIVE all_calls(_, _)
all_calls(db, n) ==
    IF n = 0 THEN <<>>
    ELSE LET client == db[n]
         IN  IF Truthy(client.portfolio)
                THEN all_calls(db, n - 1) \o CallsOf(positions[client.portfolio])
                ELSE all_calls(db, n - 1)

\* A maximum that a later element of equal strike replaces.
RECURSIVE max_by_strike_Last(_)
max_by_strike_Last(s) ==
    IF Len(s) = 1 THEN s[1]
    ELSE LET best == max_by_strike_Last(SubSeq(s, 1, Len(s) - 1))
         IN  IF s[Len(s)].strike_price >= best.strike_price THEN s[Len(s)] ELSE best

\* max(s, key=lambda x: x.strike_price), s not empty: Python's max keeps the
\* first of several maximal elements, a later one replaces it only if greater.
RECURSIVE max_by_strike(_)
max_by_strike(s) ==
    IF Len(s) = 1 THEN s[1]
    ELSE LET best == max_by_strike(SubSeq(s, 1, Len(s) - 1))
         IN  IF s[Len(s)].strike_price > best.strike_price THEN s[Len(s)] ELSE best

\* The outcome of report 3 (lines 255-260): <<winner>>, or the empty <<>>
\* where main() prints "No Call options found.".
highest_strike_call(db) ==
    LET calls == all_calls(db, Len(db))
    IN  IF calls # <<>> THEN <<max_by_strike(calls)>> ELSE <<>>

(***************************************************************************)
(* The objects of the model.                                               *)
(***************************************************************************)
PortfolioIds == {"p1", "p2"}

\* The positions add_position is called with under Spec: one of each kind.
PositionPool ==
    { Stock("SAN", 2, 3, TRUE),
      Derivative("FUT-DAX", -1, 2, "2026-12", 25),
      Option("CALL-TSLA", 1, 2, "2026-06", 10, 5, "Call"),
      Option("PUT-TSLA", 3, 1, "2026-06", 100, 7, "Put") }

\* The positions add_position is called with under SpecReport: three Calls,
\* two of them sharing the highest strike, and a Put, a Stock and a
\* Derivative that are no Calls.
ReportPool ==
    { Option("CALL-A", 1, 2, "2026-06", 10, 5, "Call"),
      Option("CALL-B", 1, 3, "2026-06", 10, 7, "Call"),
      Option("CALL-C", 2, 1, "2026-03", 100, 7, "Call"),
      Option("PUT-A", 1, 2, "2026-06", 10, 9, "Put"),
      Stock("SAN", 2, 3, TRUE),
      Derivative("FUT-DAX", 1, 2, "2026-12", 25) }

\* The Options theoretical_value_bs is priced on: every market price and
\* strike of -1..MaxPrice, the invalid ones (<= 0) included.
PricedOptions ==
    { Option("OPT", 1, S, "2026-06", m, K, t) :
        S \in -1..MaxPrice, K \in -1..MaxPrice, m \in {1, 100},
        t \in {"Call", "Put", "Straddle"} }

\* risk_free_rate, volatility and time_to_maturity, in units of 1/FP.
PricingArgs ==
    { <<r, sigma, T>> : r \in {0, 40}, sigma \in {0, 250}, T \in {-500, 0, 500} }

\* The arguments of main()'s pricing demo: (0.04, 0.25, 0.5), line 305.
DemoArgs == { <<40, 250, 500>> }

NoCall == [op |-> "none", self |-> None, arg |-> None]

Call(op, self, arg) == [op |-> op, self |-> self, arg |-> arg]

TotalPositions == Len(positions["p1"]) + Len(positions["p2"])

(***************************************************************************)
(* The operations.                                                         *)
(***************************************************************************)
\* A list insertion at the front.
add_position_Front(self, position) ==
    /\ TotalPositions < MaxPositions
    /\ positions' = [positions EXCEPT ![self] = <<position>> \o @]
    /\ lastCall' = Call("add_position", self, position)
    /\ returned' = None
    /\ UNCHANGED bank_database

\* Portfolio.add_position: self.positions.append(position)
add_position(self, position) ==
    /\ TotalPositions < MaxPositions
    /\ positions' = [positions EXCEPT ![self] = Append(@, position)]
    /\ lastCall' = Call("add_position", self, position)
    /\ returned' = None
    /\ UNCHANGED bank_database

\* ClientAccount.assign_portfolio: self.portfolio = portfolio
assign_portfolio(a, portfolio) ==
    /\ bank_database' = [bank_database EXCEPT ![a].portfolio = portfolio]
    /\ lastCall' = Call("assign_portfolio", a, portfolio)
    /\ returned' = None
    /\ UNCHANGED positions

\* A call of a method that assigns nothing: only its result is recorded.
Query(op, self, arg, result) ==
    /\ lastCall' = Call(op, self, arg)
    /\ returned' = result
    /\ UNCHANGED <<positions, bank_database>>

Call_calculate_current_value ==
    \E pid \in PortfolioIds : \E i \in 1..Len(positions[pid]) :
        Query("calculate_current_value", <<pid, i>>, None,
              calculate_current_value(positions[pid][i]))

\* theoretical_value_bs reads its Option and its arguments and nothing else,
\* so its outcomes on the Options and arguments of the model are computed
\* once, here, and looked up by the calls.
Outcome ==
    [opt \in {p \in PositionPool : isinstance(p, "Option")} \cup PricedOptions |->
        [a \in DemoArgs \cup PricingArgs |->
            theoretical_value_bs(opt, a[1], a[2], a[3])]]

Call_theoretical_value_bs(args) ==
    \E pid \in PortfolioIds : \E i \in 1..Len(positions[pid]) : \E a \in args :
        /\ isinstance(positions[pid][i], "Option")
        /\ Query("theoretical_value_bs", <<pid, i>>, a,
                 Outcome[positions[pid][i]][a])

Call_total_valuation ==
    \E pid \in PortfolioIds :
        Query("total_valuation", pid, None, total_valuation(positions[pid]))

Call_average_market_price ==
    \E pid \in PortfolioIds :
        Query("average_market_price", pid, None,
              average_market_price(positions[pid]))

Call_has_straddle_strategy ==
    \E pid \in PortfolioIds :
        Query("has_straddle_strategy", pid, None,
              has_straddle_strategy(positions[pid]))

Call_calculate_net_worth ==
    \E a \in 1..Len(bank_database) :
        Query("calculate_net_worth", a, None,
              calculate_net_worth(bank_database[a]))

Report_highest_strike_call ==
    Query("highest_strike_call", None, None, highest_strike_call(bank_database))

(***************************************************************************)
(* Spec: portfolios and accounts under add_position, assign_portfolio and  *)
(* the queries.  Init is the state after the constructors: two empty       *)
(* Portfolios, two ClientAccounts without a portfolio.                     *)
(***************************************************************************)
Init ==
    /\ positions = [pid \in PortfolioIds |-> <<>>]
    /\ bank_database = << ClientAccount("CH01", 100), ClientAccount("CH02", 0) >>
    /\ lastCall = NoCall
    /\ returned = None

Mutate(pool) ==
    \/ \E pid \in PortfolioIds : \E p \in pool : add_position(pid, p)
    \/ \E a \in 1..Len(bank_database) : \E pid \in PortfolioIds :
           assign_portfolio(a, pid)

Next ==
    \/ Mutate(PositionPool)
    \/ Call_calculate_current_value
    \/ Call_theoretical_value_bs(DemoArgs)
    \/ Call_total_valuation
    \/ Call_average_market_price
    \/ Call_has_straddle_strategy
    \/ Call_calculate_net_worth
    \/ Report_highest_strike_call

Spec == Init /\ [][Next]_vars

(***************************************************************************)
(* SpecReport: the maximum-strike report of main() over the accounts, with *)
(* the portfolios filled from ReportPool.                                  *)
(***************************************************************************)
NextReport ==
    \/ Mutate(ReportPool)
    \/ Report_highest_strike_call

SpecReport == Init /\ [][NextReport]_vars

(***************************************************************************)
(* SpecBS: theoretical_value_bs as a pure function.  Init draws the Option *)
(* from PricedOptions; the one action prices it under every argument of    *)
(* PricingArgs.                                                            *)
(***************************************************************************)
InitBS ==
    /\ \E opt \in PricedOptions :
           positions = [pid \in PortfolioIds |->
                           IF pid = "p1" THEN <<opt>> ELSE <<>>]
    /\ bank_database = << ClientAccount("CH01", 100), ClientAccount("CH02", 0) >>
    /\ lastCall = NoCall
    /\ returned = None

NextBS == Call_theoretical_value_bs(PricingArgs)

SpecBS == InitBS /\ [][NextBS]_vars

(***************************************************************************)
(* The claims.  In a state reached by a call, lastCall names the operation *)
(* and its arguments and returned holds its result.                        *)
(***************************************************************************)
Called(op) == lastCall.op = op

\* The position a call on a position was made on.
Target == positions[lastCall.self[1]][lastCall.self[2]]

IsCall(pos) == pos.class = "Option" /\ pos.option_type = "Call"

IsPut(pos) == pos.class = "Option" /\ pos.option_type = "Put"

\* The value the specification gives a position: quantity * market_price
\* for a Stock, quantity * market_price * multiplier for the other two.
SpecifiedValue(pos) ==
    CASE pos.class = "Stock" -> pos.quantity * pos.market_price
      [] pos.class \in {"Derivative", "Option"} ->
            pos.quantity * pos.market_price * pos.multiplier

RECURSIVE SpecifiedValuation(_)
SpecifiedValuation(ps) ==
    IF ps = <<>> THEN 0 ELSE SpecifiedValue(Head(ps)) + SpecifiedValuation(Tail(ps))

\* C1, as claimed: an Option whose option_type is neither "Call" nor "Put"
\* has theoretical value 0 for every time_to_maturity T >= 0, T = 0
\* included.  Stated over valid prices, strikes and volatilities (> 0), where
\* no exception of the d1 computation interferes.
C1_UnknownTypeIsZero ==
    ( /\ Called("theoretical_value_bs")
      /\ Target.option_type \notin {"Call", "Put"}
      /\ lastCall.arg[3] >= 0
      /\ Target.market_price > 0 /\ Target.strike_price > 0
      /\ lastCall.arg[2] > 0 )
    => returned = Value(0)

\* C2, as claimed: a call with an invalid numeric input (market_price <= 0,
\* strike_price <= 0, volatility = 0 or time_to_maturity < 0) never returns
\* a numeric value.
InvalidPricingInput ==
    \/ Target.market_price <= 0
    \/ Target.strike_price <= 0
    \/ lastCall.arg[2] = 0
    \/ lastCall.arg[3] < 0

C2_InvalidInputNeverReturns ==
    (Called("theoretical_value_bs") /\ InvalidPricingInput)
    => returned.kind # "value"

\* C3: with time_to_maturity T <= 0, theoretical_value_bs returns the
\* intrinsic value max(0, S - K) of a Call and max(0, K - S) of a Put,
\* whatever the multiplier, the risk_free_rate and the volatility.
C3_IntrinsicAtExpiry ==
    ( /\ Called("theoretical_value_bs")
      /\ lastCall.arg[3] <= 0
      /\ Target.option_type \in {"Call", "Put"} )
    => LET S == Target.market_price
           K == Target.strike_price
       IN  /\ returned.kind = "value"
           /\ Target.option_type = "Call"
                 => returned.v = (IF S - K > 0 THEN S - K ELSE 0) * FP
           /\ Target.option_type = "Put"
                 => returned.v = (IF K - S > 0 THEN K - S ELSE 0) * FP

\* C3's case: a Call in the money with multiplier 100, priced at T < 0
\* with volatility 0.
C3_Witness ==
    /\ Called("theoretical_value_bs")
    /\ lastCall.arg[3] < 0 /\ lastCall.arg[2] = 0 /\ lastCall.arg[1] > 0
    /\ Target.option_type = "Call" /\ Target.multiplier = 100
    /\ Target.market_price = 3 /\ Target.strike_price = 1
    /\ returned = Value(2 * FP)

\* C4: has_straddle_strategy() is true iff the positions hold at least one
\* Option of type Call and at least one Option of type Put.
C4_StraddleIff ==
    Called("has_straddle_strategy")
    => LET ps == positions[lastCall.self]
       IN  returned = ( /\ \E i \in 1..Len(ps) : IsCall(ps[i])
                        /\ \E j \in 1..Len(ps) : IsPut(ps[j]) )

\* C4's case: the Put precedes the Call and a Stock follows both, so the
\* loop returns before the end of the list.
C4_Witness ==
    /\ Called("has_straddle_strategy")
    /\ returned = TRUE
    /\ LET ps == positions[lastCall.self]
       IN  Len(ps) = 3 /\ IsPut(ps[1]) /\ IsCall(ps[2]) /\ ps[3].class = "Stock"

\* C5: calculate_net_worth() is cash_balance plus the portfolio's total
\* valuation when a portfolio is assigned (an empty one included), and
\* cash_balance when none is.
C5_NetWorth ==
    Called("calculate_net_worth")
    => LET acct == bank_database[lastCall.self]
       IN  IF acct.portfolio = None
              THEN returned = acct.cash_balance
              ELSE returned = acct.cash_balance
                                + SpecifiedValuation(positions[acct.portfolio])

\* C5's case: the net worth of an account whose portfolio holds positions
\* of a total value other than 0.
C5_Witness ==
    /\ Called("calculate_net_worth")
    /\ bank_database[lastCall.self].portfolio # None
    /\ Len(positions[bank_database[lastCall.self].portfolio]) >= 2
    /\ returned # bank_database[lastCall.self].cash_balance

\* C6: total_valuation() is the sum over the held positions of
\* quantity * market_price (Stock) or quantity * market_price * multiplier
\* (Derivative, Option); 0 for an empty portfolio.
C6_TotalValuation ==
    Called("total_valuation")
    => returned = SpecifiedValuation(positions[lastCall.self])

\* C6's case: a portfolio holding a Stock, a Derivative and an Option.
C6_Witness ==
    /\ Called("total_valuation")
    /\ LET ps == positions[lastCall.self]
       IN  /\ \E i \in 1..Len(ps) : ps[i].class = "Stock"
           /\ \E i \in 1..Len(ps) : ps[i].class = "Derivative"
           /\ \E i \in 1..Len(ps) : ps[i].class = "Option"
    /\ returned # 0

\* C7, as claimed: no Portfolio is the assigned portfolio of two different
\* ClientAccounts.
C7_ExclusiveOwnership ==
    \A a, b \in 1..Len(bank_database) :
        (a # b /\ bank_database[a].portfolio # None)
        => bank_database[a].portfolio # bank_database[b].portfolio

\* C8, as claimed: once an account's portfolio is assigned, no operation
\* changes which portfolio the account holds.
C8_AssignedOnce ==
    [][ \A a \in 1..Len(bank_database) :
            bank_database[a].portfolio # None
            => bank_database'[a].portfolio = bank_database[a].portfolio ]_vars

\* C9: add_position(p) appends exactly p at the end of its portfolio's
\* positions and changes nothing else; the queries change neither a
\* positions list nor an account; only add_position and assign_portfolio
\* change either.
QueryOps ==
    {"calculate_current_value", "theoretical_value_bs", "total_valuation",
     "average_market_price", "has_straddle_strategy", "calculate_net_worth",
     "highest_strike_call"}

C9_Frame ==
    [][ /\ lastCall'.op = "add_position"
           => LET pid == lastCall'.self
                  old == positions[pid]
                  new == positions'[pid]
              IN  /\ Len(new) = Len(old) + 1
                  /\ new[Len(new)] = lastCall'.arg
                  /\ \A i \in 1..Len(old) : new[i] = old[i]
                  /\ \A q \in PortfolioIds \ {pid} : positions'[q] = positions[q]
                  /\ bank_database' = bank_database
        /\ lastCall'.op \in QueryOps
           => positions' = positions /\ bank_database' = bank_database
        /\ (positions' # positions \/ bank_database' # bank_database)
           => lastCall'.op \in {"add_position", "assign_portfolio"} ]_vars

\* C9's case: add_position has appended a position other than the one
\* already held, to a portfolio that an account holds.
C9_Witness ==
    /\ Called("add_position")
    /\ LET ps == positions[lastCall.self]
       IN  Len(ps) >= 2 /\ ps[Len(ps)] = lastCall.arg /\ ps[1] # ps[Len(ps)]
    /\ \E a \in 1..Len(bank_database) : bank_database[a].portfolio = lastCall.self

\* C10: the maximum-strike report returns a Call whose strike is >= that of
\* every Call of every assigned portfolio, the first such in iteration order
\* (accounts in collection order, positions in insertion order), and the
\* empty result when no assigned portfolio holds a Call.
CallSlots ==
    { s \in (1..Len(bank_database)) \X (1..MaxPositions) :
        /\ bank_database[s[1]].portfolio # None
        /\ s[2] <= Len(positions[bank_database[s[1]].portfolio])
        /\ IsCall(positions[bank_database[s[1]].portfolio][s[2]]) }

At(s) == positions[bank_database[s[1]].portfolio][s[2]]

Before(s, t) == s[1] < t[1] \/ (s[1] = t[1] /\ s[2] < t[2])

C10_HighestStrikeCall ==
    Called("highest_strike_call")
    => IF CallSlots = {} THEN returned = <<>>
       ELSE \E s \in CallSlots :
               /\ returned = <<At(s)>>
               /\ \A t \in CallSlots :
                     /\ At(t).strike_price <= At(s).strike_price
                     /\ Before(t, s) => At(t).strike_price < At(s).strike_price

\* C10's case: two accounts with portfolios of their own; the second holds
\* a Put of a higher strike and a Call of the winner's strike.
C10_Witness ==
    /\ Called("highest_strike_call")
    /\ bank_database[1].portfolio # None /\ bank_database[2].portfolio # None
    /\ bank_database[1].portfolio # bank_database[2].portfolio
    /\ returned # <<>>
    /\ LET theirs == positions[bank_database[2].portfolio]
       IN  /\ \E i \in 1..Len(theirs) :
                 IsPut(theirs[i]) /\ theirs[i].strike_price > returned[1].strike_price
           /\ \E i \in 1..Len(theirs) :
                 IsCall(theirs[i]) /\ theirs[i].strike_price = returned[1].strike_price
                                   /\ theirs[i] # returned[1]

=============================================================================
